---- MODULE Spec2Model ----
(***************************************************************************)
(* Model of the SJSU parking ingestion job (frontend/api/cron.js).         *)
(*                                                                         *)
(* Strings are sequences of one-character strings, so that indexOf, slice  *)
(* and the regular expressions of the source are computed character by     *)
(* character.  JavaScript indices are 0-based: slice(s, a, b) below is     *)
(* s.slice(a, b).                                                          *)
(***************************************************************************)
EXTENDS Integers, Sequences, FiniteSets, TLC

(***************************************************************************)
(* Bounds of the model.                                                    *)
(***************************************************************************)
\* A response body arrives as at most MaxChunks chunks.
MaxChunks == 3

(***************************************************************************)
(* Characters and character classes.                                       *)
(***************************************************************************)
Null == <<"null">>

ToLower ==
  [c \in {"A","B","C","D","E","F","G","H","I","J","K","L","M","N","O","P","Q",
          "R","S","T","U","V","W","X","Y","Z"} |->
     CASE c = "A" -> "a" [] c = "B" -> "b" [] c = "C" -> "c" [] c = "D" -> "d"
       [] c = "E" -> "e" [] c = "F" -> "f" [] c = "G" -> "g" [] c = "H" -> "h"
       [] c = "I" -> "i" [] c = "J" -> "j" [] c = "K" -> "k" [] c = "L" -> "l"
       [] c = "M" -> "m" [] c = "N" -> "n" [] c = "O" -> "o" [] c = "P" -> "p"
       [] c = "Q" -> "q" [] c = "R" -> "r" [] c = "S" -> "s" [] c = "T" -> "t"
       [] c = "U" -> "u" [] c = "V" -> "v" [] c = "W" -> "w" [] c = "X" -> "x"
       [] c = "Y" -> "y" [] c = "Z" -> "z"]

Lowercase == {ToLower[u] : u \in DOMAIN ToLower}

LowerChar(c) == IF c \in DOMAIN ToLower THEN ToLower[c] ELSE c

Digits == <<"0","1","2","3","4","5","6","7","8","9">>

\* \d
IsDigit(c) == \E i \in 1..10 : Digits[i] = c

DigitValue(c) == (CHOOSE i \in 1..10 : Digits[i] = c) - 1

\* \s
IsSpace(c) == c \in {" ", "\n", "\t", "\r"}

\* \w, as \b uses it
IsWord(c) == IsDigit(c) \/ c = "_" \/ c \in DOMAIN ToLower \/ c \in Lowercase

\* . (no s flag): any character but a line terminator
IsDot(c) == c \notin {"\n", "\r"}

\* The only element of a singleton.  Only({F(x) : x \in {e}}) is F(e) with e
\* evaluated once, whatever the number of times F uses its argument; the
\* operators below bind every intermediate result this way.
Only(S) == CHOOSE x \in S : TRUE

MinOf(S) == Only({m \in S : \A y \in S : m <= y})

MaxOf(S) == Only({m \in S : \A y \in S : m >= y})

\* s.slice(a, b) for 0 <= a and 0 <= b: both are clamped to s.length
slice(s, a, b) ==
  IF a >= Len(s) \/ b <= a THEN <<>>
  ELSE SubSeq(s, a + 1, IF b > Len(s) THEN Len(s) ELSE b)

\* U+0130, LATIN CAPITAL LETTER I WITH DOT ABOVE: the one character whose
\* lower case is two UTF-16 code units, "i" and U+0307
DottedI == "U+0130"

CombiningDot == "U+0307"

RECURSIVE toLowerCase(_)
\* String.prototype.toLowerCase: every character is replaced by its lower
\* case, run by run of U+0130
toLowerCase(s) ==
  LET plain(t) == [i \in 1..Len(t) |-> LowerChar(t[i])]
      dotted == {i \in 1..Len(s) : s[i] = DottedI}
  IN IF dotted = {} THEN plain(s)
     ELSE LET p == MinOf(dotted)
              stops == {i \in p..Len(s) : s[i] # DottedI}
              q == IF stops = {} THEN Len(s) + 1 ELSE MinOf(stops)
          IN plain(SubSeq(s, 1, p - 1))
             \o [j \in 1..(2 * (q - p)) |-> IF j % 2 = 1 THEN "i" ELSE CombiningDot]
             \o toLowerCase(SubSeq(s, q, Len(s)))

\* lit occurs in s at the 1-based position p; ci: ignoring case
StartsAt(s, p, lit, ci) ==
  /\ p >= 1
  /\ p + Len(lit) - 1 <= Len(s)
  /\ \A k \in 1..Len(lit) :
       IF ci THEN LowerChar(s[p + k - 1]) = LowerChar(lit[k])
             ELSE s[p + k - 1] = lit[k]

\* the first 1-based position >= from where lit occurs in s, 0 if none
FirstAt(s, lit, from, ci) ==
  Only({IF hits = {} THEN 0 ELSE MinOf(hits) :
          hits \in {{p \in from..(Len(s) - Len(lit) + 1) : StartsAt(s, p, lit, ci)}}})

\* String.prototype.indexOf: 0-based, -1 if absent
indexOf(s, sub) == FirstAt(s, sub, 1, FALSE) - 1

\* the number of characters from position p on that are of the class cls
\* ("space" or "digit"): the greedy extent of \s* or \d*
RunLen(s, p, cls) ==
  Only({IF stops = {} THEN Len(s) + 1 - p ELSE MinOf(stops) - p :
          stops \in {{i \in p..Len(s) :
                        ~(IF cls = "space" THEN IsSpace(s[i]) ELSE IsDigit(s[i]))}}})

\* the last position a run of . (any character but a line terminator) that
\* starts at p can reach: . matches the characters p .. DotEnd(s, p) - 1
DotEnd(s, p) ==
  Only({IF stops = {} THEN Len(s) + 1 ELSE MinOf(stops) :
          stops \in {{i \in p..Len(s) : ~IsDot(s[i])}}})

\* String.prototype.trim
trim(s) ==
  Only({IF keep = {} THEN <<>> ELSE SubSeq(s, MinOf(keep), MaxOf(keep)) :
          keep \in {{i \in 1..Len(s) : ~IsSpace(s[i])}}})

(***************************************************************************)
(* htmlToText (cron.js 7-15): five global replacements and a trim.         *)
(***************************************************************************)
ScriptOpen == <<"<","s","c","r","i","p","t">>
ScriptClose == <<"<","/","s","c","r","i","p","t",">">>
StyleOpen == <<"<","s","t","y","l","e">>
StyleClose == <<"<","/","s","t","y","l","e",">">>
Nbsp == <<"&","n","b","s","p",";">>

\* The length of the match of an open ... close block (lazy middle) at p, 0 if none.
BlockLen(s, p, open, close) ==
  IF ~StartsAt(s, p, open, TRUE) THEN 0
  ELSE Only({IF c = 0 THEN 0 ELSE c + Len(close) - p :
               c \in {FirstAt(s, close, p + Len(open), TRUE)}})

\* The length of the match of <[^>]+> at p, 0 if none.
TagLen(s, p) ==
  IF s[p] # "<" THEN 0
  ELSE Only({IF c = 0 \/ c = p + 1 THEN 0 ELSE c - p + 1 :
               c \in {FirstAt(s, <<">">>, p + 1, FALSE)}})

\* The length of the match at p of the pattern of one replacement step.
MatchLen(step, s, p) ==
  CASE step = "script" -> BlockLen(s, p, ScriptOpen, ScriptClose)
    [] step = "style" -> BlockLen(s, p, StyleOpen, StyleClose)
    [] step = "tag" -> TagLen(s, p)
    [] step = "nbsp" -> IF StartsAt(s, p, Nbsp, FALSE) THEN Len(Nbsp) ELSE 0
    [] step = "space" -> IF IsSpace(s[p]) THEN RunLen(s, p, "space") ELSE 0

RECURSIVE ReplaceFrom(_, _, _)
\* s.replace(/pattern/g, " ") from position p on: matches are found left to
\* right and do not overlap; what lies between two matches is kept.
ReplaceFrom(step, s, p) ==
  LET rest(m, n) == SubSeq(s, p, m - 1) \o <<" ">> \o ReplaceFrom(step, s, m + n)
      first(hits) ==
        IF hits = {} THEN SubSeq(s, p, Len(s))
        ELSE Only({Only({rest(m, n) : n \in {MatchLen(step, s, m)}}) : m \in {MinOf(hits)}})
  IN Only({first(hits) : hits \in {{m \in p..Len(s) : MatchLen(step, s, m) > 0}}})

htmlToText(html) ==
  Only({trim(e) : e \in
    {ReplaceFrom("space", d, 1) : d \in
      {ReplaceFrom("nbsp", c, 1) : c \in
        {ReplaceFrom("tag", b, 1) : b \in
          {ReplaceFrom("style", a, 1) : a \in
            {ReplaceFrom("script", h, 1) : h \in {html}}}}}}})

(***************************************************************************)
(* parseLastUpdated (cron.js 17-20):                                       *)
(*   /\bLast updated\b\s+(.+?)(?:\s+Refresh\b|$)/i                         *)
(***************************************************************************)
LastUpdatedLit == <<"l","a","s","t"," ","u","p","d","a","t","e","d">>
RefreshLit == <<"r","e","f","r","e","s","h">>

\* \b between positions p - 1 and p
WordBoundary(s, p) ==
  (p >= 2 /\ p - 1 <= Len(s) /\ IsWord(s[p - 1])) # (p >= 1 /\ p <= Len(s) /\ IsWord(s[p]))

\* (?:\s+Refresh\b|$) at p
LastUpdatedEndAt(s, p) ==
  \/ p = Len(s) + 1
  \/ /\ p <= Len(s)
     /\ IsSpace(s[p])
     /\ \E w \in {RunLen(s, p, "space")} :
          /\ StartsAt(s, p + w, RefreshLit, TRUE)
          /\ WordBoundary(s, p + w + Len(RefreshLit))

\* The ends of the capture (.+?) that starts at q: the positions r such that
\* the capture is q .. r - 1 and the rest of the pattern matches at r.
LastUpdatedEnds(s, q) ==
  Only({{r \in (q + 1)..limit : LastUpdatedEndAt(s, r)} : limit \in {DotEnd(s, q)}})

\* The capture (.+?) when the pattern is matched from start, as <<from, to>>
\* (1-based, inclusive), or <<>> when it does not match there.  \s+ is greedy
\* and gives characters back; .+? is lazy.
LastUpdatedFrom(s, start) ==
  IF ~(WordBoundary(s, start) /\ StartsAt(s, start, LastUpdatedLit, TRUE)
       /\ WordBoundary(s, start + Len(LastUpdatedLit)))
  THEN <<>>
  ELSE LET e == start + Len(LastUpdatedLit)
           capture(q) == Only({<<q, MinOf(ends) - 1>> : ends \in {LastUpdatedEnds(s, q)}})
           pick(ws) == IF ws = {} THEN <<>>
                       ELSE Only({capture(e + v) : v \in {MaxOf(ws)}})
       IN Only({pick({v \in 1..w : LastUpdatedEnds(s, e + v) # {}}) :
                  w \in {RunLen(s, e, "space")}})

parseLastUpdated(text) ==
  LET capture(p) == Only({trim(SubSeq(text, m[1], m[2])) : m \in {LastUpdatedFrom(text, p)}})
      pick(starts) == IF starts = {} THEN Null
                      ELSE Only({capture(p) : p \in {MinOf(starts)}})
  IN Only({pick(starts) :
             starts \in {{p \in 1..Len(text) : LastUpdatedFrom(text, p) # <<>>}}})

(***************************************************************************)
(* parseStatuses (cron.js 22-57).                                          *)
(***************************************************************************)
\* cron.js 23; the same list as GARAGES of the frontend
garageNames ==
  << <<"S","o","u","t","h"," ","G","a","r","a","g","e">>,
     <<"N","o","r","t","h"," ","G","a","r","a","g","e">>,
     <<"W","e","s","t"," ","G","a","r","a","g","e">>,
     <<"S","o","u","t","h"," ","C","a","m","p","u","s"," ","G","a","r","a","g","e">> >>

FullLit == <<"f","u","l","l">>

\* \s+(Full|\d+\s*%) at p: the capture as <<from, to>> (1-based, inclusive),
\* <<>> if it does not match at p.  The alternatives are tried in order; the
\* greedy \s+, \d+ and \s* can give nothing back here, because what follows
\* each of them cannot start with a character of its own class.
StatusAt(s, p) ==
  LET percent(q, d, v) ==
        IF d >= 1 /\ StartsAt(s, q + d + v, <<"%">>, FALSE) THEN <<q, q + d + v>> ELSE <<>>
      number(q, d) == Only({percent(q, d, v) : v \in {RunLen(s, q + d, "space")}})
      value(q) ==
        IF StartsAt(s, q, FullLit, TRUE) THEN <<q, q + Len(FullLit) - 1>>
        ELSE Only({number(q, d) : d \in {RunLen(s, q, "digit")}})
  IN IF p > Len(s) \/ ~IsSpace(s[p]) THEN <<>>
     ELSE Only({value(p + w) : w \in {RunLen(s, p, "space")}})

\* \d+\s+[SNWE] at p: the position after the match, 0 if it does not match.
DirectionAt(s, p) ==
  LET letter(q) ==
        IF q <= Len(s) /\ LowerChar(s[q]) \in {"s", "n", "w", "e"} THEN q + 1 ELSE 0
      spaces(q) ==
        Only({IF w >= 1 THEN letter(q + w) ELSE 0 : w \in {RunLen(s, q, "space")}})
  IN IF p > Len(s) \/ ~IsDigit(s[p]) THEN 0
     ELSE Only({spaces(p + d) : d \in {RunLen(s, p, "digit")}})

\* .*?\s+(Full|\d+\s*%) at p: the lazy .*? takes as few characters as it can.
LazyStatus(s, p) ==
  LET pick(hits) == IF hits = {} THEN <<>>
                    ELSE Only({StatusAt(s, j) : j \in {MinOf(hits)}})
  IN Only({pick({j \in p..limit : StatusAt(s, j) # <<>>}) : limit \in {DotEnd(s, p)}})

\* (?:\d+\s+[SNWE].*?)?\s+(Full|\d+\s*%) at p: the optional group is tried
\* first and, when the rest fails with it, skipped.
GroupStatus(s, p) ==
  LET withGroup(g) ==
        IF g = 0 THEN StatusAt(s, p)
        ELSE Only({IF m # <<>> THEN m ELSE StatusAt(s, p) : m \in {LazyStatus(s, g)}})
  IN Only({withGroup(g) : g \in {DirectionAt(s, p)}})

\* .*?(?:\d+\s+[SNWE].*?)?\s+(Full|\d+\s*%) at p: the first lazy .*? takes
\* as few characters as lets the rest match.
AfterName(s, p) ==
  LET pick(hits) == IF hits = {} THEN <<>>
                    ELSE Only({GroupStatus(s, k) : k \in {MinOf(hits)}})
  IN Only({pick({k \in p..limit : GroupStatus(s, k) # <<>>}) : limit \in {DotEnd(s, p)}})

\* segment.match(pattern): match[1] as a string, Null when there is no match.
\* The pattern is the escaped name (the names hold no metacharacter, so it
\* matches the name literally, ignoring case) followed by the tail above; the
\* leftmost start that matches wins.
matchStatus(segment, name) ==
  LET try(p) == IF StartsAt(segment, p, name, TRUE)
                THEN AfterName(segment, p + Len(name)) ELSE <<>>
      capture(p) == Only({SubSeq(segment, m[1], m[2]) : m \in {try(p)}})
      pick(starts) == IF starts = {} THEN Null
                      ELSE Only({capture(p) : p \in {MinOf(starts)}})
  IN Only({pick(starts) : starts \in {{p \in 1..Len(segment) : try(p) # <<>>}}})

\* s.replace("%", ""): the first occurrence only
dropPercent(s) ==
  Only({IF p = 0 THEN s ELSE SubSeq(s, 1, p - 1) \o SubSeq(s, p + 1, Len(s)) :
          p \in {FirstAt(s, <<"%">>, 1, FALSE)}})

RECURSIVE DigitsValue(_, _)
\* the number the first d characters of s, all digits, denote
DigitsValue(s, d) ==
  IF d = 0 THEN 0 ELSE 10 * DigitsValue(s, d - 1) + DigitValue(s[d])

\* Number.parseInt(s, 10) of a string that holds no sign and no leading
\* space: the value of its leading digits; -1 stands for NaN
parseInt(s) ==
  Only({IF d = 0 THEN -1 ELSE DigitsValue(s, d) : d \in {RunLen(s, 1, "digit")}})

\* cron.js 25-28: the names found in the text with their 0-based index, sorted
\* by index (Array.prototype.sort is stable: equal indices keep list order)
positions(text) ==
  LET index(lower, k) == Only({indexOf(lower, name) : name \in {toLowerCase(garageNames[k])}})
      indices(lower) == [k \in 1..Len(garageNames) |-> index(lower, k)]
      sorted(idx) ==
        LET found == {k \in 1..Len(garageNames) : idx[k] # -1}
            before(a, b) == idx[a] < idx[b] \/ (idx[a] = idx[b] /\ a < b)
            rank(k) == Cardinality({j \in found : before(j, k)}) + 1
        IN [r \in 1..Cardinality(found) |->
              LET k == CHOOSE k \in found : rank(k) = r
              IN [name |-> garageNames[k], idx |-> idx[k]]]
  IN Only({sorted(idx) : idx \in {indices(lower) : lower \in {toLowerCase(text)}}})

\* cron.js 34-36: the segment of the i-th found name
segmentOf(text, pos, i) ==
  LET nextIdx == IF i + 1 <= Len(pos) THEN pos[i + 1].idx ELSE Len(text)
  IN slice(text, pos[i].idx, nextIdx)

\* cron.js 45-53: the status of a matched value, -1 when it is dropped
statusOf(matched) ==
  LET number(statusText) ==
        Only({parseInt(numberStr) : numberStr \in
          {trim(dropped) : dropped \in {dropPercent(statusText)}}})
      normalize(statusText) ==
        Only({IF lower = FullLit THEN 100 ELSE number(statusText) :
                lower \in {toLowerCase(statusText)}})
  IN Only({normalize(statusText) : statusText \in {trim(matched)}})

RECURSIVE statusesFrom(_, _, _)
\* cron.js 33-54: the loop from the i-th found name on; the result is
\* Object.entries(statuses), i.e. the [garage, status] pairs in insertion order
statusesFrom(text, pos, i) ==
  IF i > Len(pos) THEN <<>>
  ELSE LET entry(n) ==
             IF n = -1 THEN <<>> ELSE <<[garage |-> pos[i].name, status |-> n]>>
           segments == {segmentOf(text, pos, i)}
           matches == {matchStatus(segment, pos[i].name) : segment \in segments}
           parsed == {IF m = Null THEN -1 ELSE statusOf(m) : m \in matches}
       IN Only({entry(n) : n \in parsed}) \o statusesFrom(text, pos, i + 1)

parseStatuses(text) == Only({statusesFrom(text, pos, 1) : pos \in {positions(text)}})

(***************************************************************************)
(* The ingestion run: handler (cron.js 114-232), fetchGarageStatusPage     *)
(* (74-107) and fetchWithTimeout (59-72).                                  *)
(***************************************************************************)
VARIABLES
  env,       \* process.env: CRON_SECRET, SUPABASE_URL, SUPABASE_KEY
  req,       \* the trigger request: method, headers.authorization, query.token
  pc,        \* where the handler is suspended
  res,       \* the responses sent on res, in order: [status, json]
  net,       \* the network requests issued so far, in order, with their outcome
  timer,     \* the timer that is armed: "none", "abort" (65) or "socket" (104)
  clock,     \* the time new Date() reads; it advances with every event
  pageResp,  \* the response fetchGarageStatusPage resolved with
  data,      \* the fallback's response: its status and the body received so far (89-95)
  run,       \* the locals of lines 152-165
  faults     \* history: what went wrong in this run, in order: [kind, code]

\* The dashboard: useGarageStatus (lib/env.ts 41-126) and AreaChart
\* (components/AreaChart.tsx 41-105).
VARIABLES
  client,    \* "ready" or "missing": supabase and supabaseEnvError of the client module
  tz,        \* the offset of local time from UTC, in hours
  mounted,   \* the effects of lines 86-94 have run
  state,     \* the state of the hook: [rows, isLoading, error, refreshedAt]
  calls,     \* the calls of fetchRows that reached the query, in the order they started
  log,       \* history: the calls whose query resolved without error, in completion order
  now,       \* the time new Date() reads in the browser; it advances with every event
  views,     \* the memoized views: [latestByGarage, historyByGarage]
  props,     \* the rows passed to AreaChart
  dailyData  \* the memoized dailyData of AreaChart

\* The extraction taken alone: htmlToText and parseStatuses (cron.js 7-57) as
\* the handler applies them at lines 153 and 156.
VARIABLES
  page       \* [stage, html, text, statuses]: the locals of lines 152-156

cronVars == <<env, req, pc, res, net, timer, clock, pageResp, data, run, faults>>

viewVars == <<client, tz, mounted, state, calls, log, now, views, props, dailyData>>

parseVars == <<page>>

vars == <<env, req, pc, res, net, timer, clock, pageResp, data, run, faults,
          client, tz, mounted, state, calls, log, now, views, props, dailyData,
          page>>

Undefined == "undefined"

\* cron.js 139
sourceUrl == <<"https://sjsuparkingstatus.sjsu.edu/GarageStatusPlain">>

\* cron.js 79-83
tlsCodes ==
  {"UNABLE_TO_VERIFY_LEAF_SIGNATURE", "DEPTH_ZERO_SELF_SIGNED_CERT",
   "SELF_SIGNED_CERT_IN_CHAIN"}

\* A faulty variant: the fallback is taken for every error that has a code.
isTlsCodeAnyCode(code) == code # Undefined

\* cron.js 84
isTlsCode(code) == code \in tlsCodes

\* A faulty variant: the body is reported whole.
pageSnippetWhole(body) == body

\* cron.js 148
pageSnippet(body) == slice(body, 0, IF Len(body) < 500 THEN Len(body) ELSE 500)

\* cron.js 213
storeSnippet(body) == slice(body, 0, IF Len(body) < 2000 THEN Len(body) ELSE 2000)

\* A faulty variant: every status from 200 on counts as a success.
isOkNoUpperBound(status) == status >= 200

\* status >= 200 && status < 300 (cron.js 97; Response.ok of fetch is the same)
isOk(status) == status >= 200 /\ status < 300

\* cron.js 109-112
\* query.token is held as a sequence: the elements of an array, the one
\* string of a plain value, nothing when it is absent
getRequestToken(r) ==
  IF Len(r.query.token) >= 1 THEN r.query.token[1] ELSE Undefined

\* A faulty variant: any value of a repeated token parameter is accepted.
isAuthedAnyToken(r, e) ==
  \/ r.authorization = <<"Bearer ", e.CRON_SECRET>>
  \/ \E i \in 1..Len(r.query.token) : r.query.token[i] = e.CRON_SECRET

\* cron.js 126-128; the header is the pair <<scheme, credentials>>
isAuthed(r, e) ==
  \/ r.authorization = <<"Bearer ", e.CRON_SECRET>>
  \/ getRequestToken(r) = e.CRON_SECRET

\* A faulty variant: only the endpoint of the store is looked at.
missingStoreConfigUrlOnly(e) == e.SUPABASE_URL = <<>>

\* cron.js 135
missingStoreConfig(e) == e.SUPABASE_URL = <<>> \/ e.SUPABASE_KEY = ""

\* cron.js 178: supabaseUrl.replace(/\/$/, "") + "/rest/v1/garage_status";
\* a URL is the sequence of its pieces
storeEndpoint(e) ==
  LET u == e.SUPABASE_URL
      stripped == IF Len(u) >= 1 /\ u[Len(u)] = "/" THEN SubSeq(u, 1, Len(u) - 1) ELSE u
  IN stripped \o <<"/rest/v1/garage_status">>

\* A faulty variant: one row for every known garage, 0 standing in for a
\* garage that has no status.
makeRowsZeroFilled(statuses, fetchedAt, lastUpdated) ==
  [i \in 1..Len(garageNames) |->
     [fetched_at |-> fetchedAt, last_updated |-> lastUpdated,
      garage |-> garageNames[i],
      status |-> IF \E k \in 1..Len(statuses) : statuses[k].garage = garageNames[i]
                 THEN statuses[CHOOSE k \in 1..Len(statuses) :
                                 statuses[k].garage = garageNames[i]].status
                 ELSE 0,
      source_url |-> sourceUrl]]

\* cron.js 159-165
makeRows(statuses, fetchedAt, lastUpdated) ==
  [i \in 1..Len(statuses) |->
     [fetched_at |-> fetchedAt, last_updated |-> lastUpdated,
      garage |-> statuses[i].garage, status |-> statuses[i].status,
      source_url |-> sourceUrl]]

\* A faulty variant: the empty batch is not told apart.
nothingParsedNever(rows) == Len(rows) < 0

\* cron.js 167
nothingParsed(rows) == Len(rows) = 0

\* A faulty variant: the body of the page is read outside the try block.
outerTryCoversNoBody(site) == site \in {"fetch", "store"}

\* The try block of lines 141-227 encloses every await of the run: the page
\* fetch ("fetch"), reading the body ("body") and the store write ("store").
outerTryCovers(site) == site \in {"fetch", "body", "store"}

\* A faulty variant: the store write has no try block of its own.
innerTryCoversNothing(site) == FALSE

\* The inner try of lines 180-206 encloses the store write only.
innerTryCovers(site) == site = "store"

\* A request as it is logged in net.
Request(kind, method, url, verify, body) ==
  [kind |-> kind, method |-> method, url |-> url, rejectUnauthorized |-> verify,
   body |-> body, outcome |-> "pending", status |-> 0, code |-> Undefined]

\* The last request with its outcome filled in.
Settled(outcome, status, code) ==
  [net EXCEPT ![Len(net)] =
     [@ EXCEPT !.outcome = outcome, !.status = status, !.code = code]]

NoRun ==
  [html |-> <<>>, text |-> <<>>, lastUpdated |-> Null, statuses |-> <<>>,
   fetchedAt |-> 0, rows |-> <<>>]

NoPageResp == [ok |-> FALSE, status |-> 0, via |-> "none"]

NoData == [status |-> 0, body |-> <<>>, chunks |-> 0]

Fault(kind, code) == [kind |-> kind, code |-> code]

(***************************************************************************)
(* What the environment may do.                                            *)
(***************************************************************************)
Secret == "s3cret"

\* process.env with nothing set, with parts of it set, and with all of it set
Envs ==
  {[CRON_SECRET |-> "",     SUPABASE_URL |-> <<>>, SUPABASE_KEY |-> ""],
   [CRON_SECRET |-> Secret, SUPABASE_URL |-> <<>>, SUPABASE_KEY |-> ""],
   [CRON_SECRET |-> Secret, SUPABASE_URL |-> <<"https://db.supabase.co">>,
    SUPABASE_KEY |-> ""],
   [CRON_SECRET |-> Secret, SUPABASE_URL |-> <<>>, SUPABASE_KEY |-> "anon-key"],
   [CRON_SECRET |-> "",     SUPABASE_URL |-> <<"https://db.supabase.co">>,
    SUPABASE_KEY |-> "anon-key"],
   [CRON_SECRET |-> Secret, SUPABASE_URL |-> <<"https://db.supabase.co", "/">>,
    SUPABASE_KEY |-> "anon-key"]}

Requests ==
  {[method |-> "GET", authorization |-> <<"Bearer ", Secret>>,
    query |-> [isArray |-> FALSE, token |-> <<>>]],
   [method |-> "HEAD", authorization |-> <<>>,
    query |-> [isArray |-> TRUE, token |-> <<Secret, "guess">>]],
   [method |-> "GET", authorization |-> <<"Bearer ", "guess">>,
    query |-> [isArray |-> FALSE, token |-> <<"guess">>]],
   [method |-> "GET", authorization |-> <<>>,
    query |-> [isArray |-> TRUE, token |-> <<>>]],
   [method |-> "GET", authorization |-> <<"Basic ", Secret>>,
    query |-> [isArray |-> TRUE, token |-> <<"guess", Secret>>]],
   [method |-> "POST", authorization |-> <<"Bearer ", Secret>>,
    query |-> [isArray |-> FALSE, token |-> <<Secret>>]]}

\* e.cause.code of a rejected fetch or of an 'error' event
ErrorCodes == tlsCodes \cup {"ECONNREFUSED", "CERT_HAS_EXPIRED", Undefined}

PageStatuses == {200, 404}

\* resp.statusCode of the fallback; -1 stands for undefined
FallbackStatusCodes == {-1, 200, 300}

StoreStatuses == {201, 500}

Filler(n) == [i \in 1..n |-> "x"]

\* The chunks a page body is made of.
PageChunks ==
  { <<"S","o","u","t","h"," ","G","a","r","a","g","e">>,
    <<"s","o","u","t","h"," ","C","A","M","P","U","S"," ","g","a","r","a","g","e",
      "<","b",">"," ","F","u","l","l","<","/","b",">">>,
    <<" ","4","5","%">>,
    <<" ","1","5","0"," ","%","\n">>,
    <<" ","L","a","s","t"," ","u","p","d","a","t","e","d"," ","9",":","0","5",
      " ","R","e","f","r","e","s","h">> }

\* The chunks the body of an error response is made of.
ErrorChunks == { <<"N","o","t"," ","F","o","u","n","d">>, Filler(300) }

Chunks(ok) == IF ok THEN PageChunks ELSE ErrorChunks

RECURSIVE BodiesOf(_, _)
\* The bodies of at most n chunks.
BodiesOf(chunks, n) ==
  IF n = 0 THEN {<<>>}
  ELSE LET shorter == BodiesOf(chunks, n - 1)
       IN shorter \cup {b \o c : b \in shorter, c \in chunks}

Bodies(ok) == BodiesOf(Chunks(ok), MaxChunks)

StoreErrorBodies == {<<>>, <<"{","}">>, Filler(2001)}

(***************************************************************************)
(* Errors and response bodies.                                             *)
(***************************************************************************)
\* fetch rejects with this when controller.abort() runs (cron.js 65)
AbortError == [message |-> "This operation was aborted", causeCode |-> Undefined]

\* fetch rejects with a TypeError whose cause carries the code
FetchFailed(code) == [message |-> "fetch failed", causeCode |-> code]

\* Response.text() rejects when the connection breaks while the body is read
BodyFailed == [message |-> "terminated", causeCode |-> "UND_ERR_SOCKET"]

\* cron.js 104
SocketTimeout == [message |-> "Timeout fetching garage status page", causeCode |-> Undefined]

\* the 'error' event of the request (cron.js 103): the error has a code but
\* no cause
RequestError(code) == [message |-> code, causeCode |-> Undefined]

\* cron.js 228-230
cronFailed(e) ==
  [status |-> 500,
   json |-> [error |-> "Cron failed", message |-> e.message, causeCode |-> e.causeCode]]

\* cron.js 145-149
upstreamFailed(status, body) ==
  [status |-> 502,
   json |-> [error |-> "Failed to fetch garage status page", status |-> status,
             body |-> pageSnippet(body)]]

\* cron.js 168-175
nothingInserted(r) ==
  [status |-> 200,
   json |-> [ok |-> TRUE, inserted |-> 0, fetchedAt |-> r.fetchedAt,
             lastUpdated |-> r.lastUpdated, statuses |-> r.statuses,
             note |-> "No statuses parsed; nothing inserted"]]

\* cron.js 196-205
storeThrew(e, r) ==
  [status |-> 502,
   json |-> [error |-> "Supabase insert failed", message |-> e.message,
             causeCode |-> e.causeCode, fetchedAt |-> r.fetchedAt,
             lastUpdated |-> r.lastUpdated, statuses |-> r.statuses]]

\* cron.js 209-217
storeRefused(status, body, r) ==
  [status |-> 502,
   json |-> [error |-> "Supabase insert failed", status |-> status,
             body |-> storeSnippet(body), fetchedAt |-> r.fetchedAt,
             lastUpdated |-> r.lastUpdated, statuses |-> r.statuses]]

\* cron.js 220-226
inserted(r) ==
  [status |-> 200,
   json |-> [ok |-> TRUE, inserted |-> Len(r.rows), fetchedAt |-> r.fetchedAt,
             lastUpdated |-> r.lastUpdated, statuses |-> r.statuses]]

\* return res.status(...).json(...)
Respond(response) ==
  /\ res' = Append(res, response)
  /\ pc' = "done"

\* An exception e raised at an await of the run: the innermost enclosing
\* catch answers; without one the promise of the handler rejects.
Throw(site, e) ==
  IF innerTryCovers(site) THEN Respond(storeThrew(e, run))
  ELSE IF outerTryCovers(site) THEN Respond(cronFailed(e))
  ELSE /\ pc' = "rejected"
       /\ res' = res

\* The fetch of fetchWithTimeout (cron.js 64-67): the timer is armed, then
\* the request is issued.
StorePost(rows) == Request("fetch", "POST", storeEndpoint(env), TRUE, rows)

\* cron.js 152-194: the body has been read; normalize, extract, build the
\* rows and either answer or issue the store write.  netNow is the request
\* log at this point.
Ingest(html, netNow) ==
  \E text \in {htmlToText(html)} :
  \E lastUpdated \in {parseLastUpdated(text)}, statuses \in {parseStatuses(text)} :
  \E fetchedAt \in {clock} :
  \E rows \in {makeRows(statuses, fetchedAt, lastUpdated)} :
    LET r == [html |-> html, text |-> text, lastUpdated |-> lastUpdated,
              statuses |-> statuses, fetchedAt |-> fetchedAt, rows |-> rows]
    IN /\ run' = r
       /\ IF nothingParsed(rows)
          THEN /\ Respond(nothingInserted(r))
               /\ net' = netNow
               /\ timer' = "none"
          ELSE /\ net' = Append(netNow, StorePost(rows))
               /\ timer' = "abort"
               /\ pc' = "awaitStore"
               /\ res' = res

(***************************************************************************)
(* The dashboard: rows, local days and the derived views                   *)
(* (lib/env.ts 8-126, components/AreaChart.tsx 27-105).                    *)
(*                                                                         *)
(* A row is [garage, status, fetched_at]; fetched_at, an ISO string in     *)
(* UTC, is held as <<year, month, day, hour>> with month 1..12.  A Date is *)
(* the number of hours since 2023-12-01T00:00Z; the calendar covers        *)
(* December 2023 to February 2024.                                         *)
(***************************************************************************)
\* lib/env.ts 8-13
GARAGES == <<"South Garage", "North Garage", "West Garage", "South Campus Garage">>

\* lib/env.ts 38
DEFAULT_LIMIT == 500

Row(garage, status, iso) == [garage |-> garage, status |-> status, fetched_at |-> iso]

\* The days before the first of a month, counted from 2023-12-01; the month
\* is 0-based as in getMonth() and in new Date(year, month, day).
DaysBefore(year, month0) ==
  IF year = 2023 THEN 0 ELSE IF month0 = 0 THEN 31 ELSE 62

\* new Date(row.fetched_at) (AreaChart.tsx 53): the instant of an ISO string
parseDate(iso) == (DaysBefore(iso[1], iso[2] - 1) + iso[3] - 1) * 24 + iso[4]

\* AreaChart.tsx 34-39: getFullYear(), getMonth(), getDate() of an instant,
\* read in local time; the key `${year}-${month}-${day}` is held as the
\* triple of its numbers, which is what split("-").map(Number) reads back
getDayKey(instant, offset) ==
  LET day == (instant + offset) \div 24
  IN IF day < 31 THEN <<2023, 11, day + 1>>
     ELSE IF day < 62 THEN <<2024, 0, day - 30>>
     ELSE <<2024, 1, day - 61>>

\* new Date(year, month, day).getTime() (AreaChart.tsx 76-80, 87-88): local
\* midnight of the day of a key, in days
dayTime(key) == DaysBefore(key[1], key[2]) + key[3] - 1

\* AreaChart.tsx 27-32: month: "short", day: "numeric"; the label has no year
formatDate(key) == <<key[2], key[3]>>

\* lib/env.ts 96-102
RECURSIVE latestFrom(_, _, _)
latestFrom(rows, i, map) ==
  IF i > Len(rows) THEN map
  ELSE latestFrom(rows, i + 1,
                  IF rows[i].garage \in DOMAIN map THEN map
                  ELSE map @@ (rows[i].garage :> rows[i]))

\* A faulty variant: a later row of a garage replaces the earlier one.
latestByGarageLastWins(rows) ==
  [g \in {rows[i].garage : i \in 1..Len(rows)} |->
     rows[CHOOSE i \in 1..Len(rows) :
            /\ rows[i].garage = g
            /\ \A j \in (i + 1)..Len(rows) : rows[j].garage # g]]

latestByGarage(rows) == latestFrom(rows, 1, <<>>)

\* lib/env.ts 104-112
RECURSIVE historyFrom(_, _, _)
historyFrom(rows, i, map) ==
  IF i > Len(rows) THEN map
  ELSE historyFrom(rows, i + 1,
                   IF rows[i].garage \in DOMAIN map
                   THEN [map EXCEPT ![rows[i].garage] = Append(@, rows[i])]
                   ELSE map @@ (rows[i].garage :> <<rows[i]>>))

\* A faulty variant: the rows of a garage are collected newest last.
historyByGarageReversed(rows) ==
  [g \in {rows[i].garage : i \in 1..Len(rows)} |->
     LET own == SelectSeq(rows, LAMBDA r : r.garage = g)
     IN [k \in 1..Len(own) |-> own[Len(own) + 1 - k]]]

historyByGarage(rows) == historyFrom(rows, 1, <<>>)

\* The views as they are before the first render.
NoViews == [rendered |-> FALSE, latestByGarage |-> <<>>, historyByGarage |-> <<>>]

\* lib/env.ts 96-125: a render of the hook
Render(rows) ==
  [rendered |-> TRUE, latestByGarage |-> latestByGarage(rows),
   historyByGarage |-> historyByGarage(rows)]

\* AreaChart.tsx 48-67: the statuses of a garage on a day, in row order
statusesOn(rows, offset, key, garage) ==
  LET own == SelectSeq(rows, LAMBDA r : /\ r.garage = garage
                                        /\ getDayKey(parseDate(r.fetched_at), offset) = key)
  IN [k \in 1..Len(own) |-> own[k].status]

\* AreaChart.tsx 56-59: the keys of dayMap
dayKeys(rows, offset) ==
  {getDayKey(parseDate(rows[i].fetched_at), offset) : i \in 1..Len(rows)}

\* AreaChart.tsx 75-81: the keys sorted by the time of their day
RECURSIVE sortedDays(_)
sortedDays(keys) ==
  IF keys = {} THEN <<>>
  ELSE LET first == CHOOSE k \in keys : \A other \in keys : dayTime(k) <= dayTime(other)
       IN <<first>> \o sortedDays(keys \ {first})

RECURSIVE sum(_, _)
\* statuses.reduce((a, b) => a + b, 0), from index i on
sum(statuses, i) ==
  IF i > Len(statuses) THEN 0 ELSE statuses[i] + sum(statuses, i + 1)

\* A faulty variant: the mean is cut off instead of rounded.
averageTruncated(statuses) ==
  IF Len(statuses) > 0 THEN sum(statuses, 1) \div Len(statuses) ELSE 0

\* AreaChart.tsx 96-98: Math.round of the mean (statuses are not negative),
\* 0 for a garage without a reading
average(statuses) ==
  IF Len(statuses) > 0
  THEN (2 * sum(statuses, 1) + Len(statuses)) \div (2 * Len(statuses))
  ELSE 0

\* A faulty variant: the garages without a reading are left out.
dataPointSparse(rows, offset, key) ==
  [date |-> formatDate(key),
   values |-> [g \in {GARAGES[i] : i \in 1..Len(GARAGES)}
                      \cap {rows[i].garage : i \in 1..Len(rows)} |->
                 average(statusesOn(rows, offset, key, g))]]

\* AreaChart.tsx 85-101: the data point of a day
dataPoint(rows, offset, key) ==
  [date |-> formatDate(key),
   values |-> [g \in {GARAGES[i] : i \in 1..Len(GARAGES)} |->
                 average(statusesOn(rows, offset, key, g))]]

\* AreaChart.tsx 42-105
dailyDataOf(rows, offset) ==
  LET days == sortedDays(dayKeys(rows, offset))
  IN [i \in 1..Len(days) |-> dataPoint(rows, offset, days[i])]

NoChart == [rendered |-> FALSE, data |-> <<>>]

(***************************************************************************)
(* The state of the hook and its updates (lib/env.ts 44-84).               *)
(***************************************************************************)
\* lib/env.ts 44-49; error is <<>> for null and <<message>> otherwise,
\* refreshedAt is 0 for null
InitialState == [rows |-> <<>>, isLoading |-> TRUE, error |-> <<>>, refreshedAt |-> 0]

\* part_000 6-9
supabaseEnvError == <<"Missing VITE_SUPABASE_URL and/or VITE_SUPABASE_ANON_KEY">>

\* lib/env.ts 52
starting(prev) == [prev EXCEPT !.isLoading = TRUE, !.error = <<>>]

\* A faulty variant: the missing client is reported and isLoading is left set.
unavailableStillLoading(prev) == [prev EXCEPT !.error = supabaseEnvError]

\* lib/env.ts 54-61
unavailable(prev) == [prev EXCEPT !.isLoading = FALSE, !.error = supabaseEnvError]

\* A faulty variant: a failed read clears what was loaded.
failedCleared(prev, message) ==
  [rows |-> <<>>, isLoading |-> FALSE, error |-> <<message>>, refreshedAt |-> 0]

\* lib/env.ts 69-76
failed(prev, message) == [prev EXCEPT !.isLoading = FALSE, !.error = <<message>>]

\* data ?? [] (lib/env.ts 79); data is [null, rows]
orEmpty(d) == IF d.null THEN <<>> ELSE d.rows

\* A faulty variant: the rows that arrive are added to those held.
loadedMerged(prev, d, at) ==
  [rows |-> orEmpty(d) \o prev.rows, isLoading |-> FALSE, error |-> <<>>,
   refreshedAt |-> at]

\* lib/env.ts 78-83: the state is replaced whole
loaded(prev, d, at) ==
  [rows |-> orEmpty(d), isLoading |-> FALSE, error |-> <<>>, refreshedAt |-> at]

\* A faulty variant: the answer of a call is dropped unless the call is the
\* one started last.
appliesOnlyNewest(i, started) == i = Len(started)

\* lib/env.ts 63-83: every answer is applied, whichever call it belongs to
applies(i, started) == i \in 1..Len(started)

\* A call of fetchRows: who started it, where it is, the state it found and
\* what its query resolved with.
Call(source, status, before) ==
  [source |-> source, status |-> status, before |-> before,
   data |-> [null |-> TRUE, rows |-> <<>>]]

Event(kind, call) == [kind |-> kind, call |-> call]

\* The ingestion job while the dashboard is looked at, and the dashboard
\* while the ingestion job runs.
CronIdle ==
  /\ env = [CRON_SECRET |-> "", SUPABASE_URL |-> <<>>, SUPABASE_KEY |-> ""]
  /\ req = [method |-> "GET", authorization |-> <<>>,
            query |-> [isArray |-> FALSE, token |-> <<>>]]
  /\ pc = "idle"
  /\ res = <<>>
  /\ net = <<>>
  /\ timer = "none"
  /\ clock = 0
  /\ pageResp = NoPageResp
  /\ data = NoData
  /\ run = NoRun
  /\ faults = <<>>

ViewIdle ==
  /\ client = "ready"
  /\ tz = 0
  /\ mounted = FALSE
  /\ state = InitialState
  /\ calls = <<>>
  /\ log = <<>>
  /\ now = 0
  /\ views = NoViews
  /\ props = <<>>
  /\ dailyData = NoChart

NoPage == [stage |-> "none", html |-> <<>>, text |-> <<>>, statuses |-> <<>>]

ParseIdle == page = NoPage

(***************************************************************************)
(* Init and the steps of a run.                                            *)
(***************************************************************************)
Init ==
  /\ env \in Envs
  /\ req \in Requests
  /\ pc = "trigger"
  /\ res = <<>>
  /\ net = <<>>
  /\ timer = "none"
  /\ clock = 0
  /\ pageResp = NoPageResp
  /\ data = NoData
  /\ run = NoRun
  /\ faults = <<>>
  /\ ViewIdle
  /\ ParseIdle

\* cron.js 114-142, 74-76, 64-67: the checks of the trigger and of the
\* configuration, then the primary fetch of the page.
HandlerEntry ==
  /\ pc = "trigger"
  /\ clock' = clock + 1
  /\ UNCHANGED <<viewVars, parseVars>>
  /\ UNCHANGED <<env, req, pageResp, data, run, faults>>
  /\ IF req.method \notin {"GET", "HEAD"}
     THEN /\ Respond([status |-> 405, json |-> [error |-> "Method not allowed"]])
          /\ UNCHANGED <<net, timer>>
     ELSE IF env.CRON_SECRET = ""
     THEN /\ Respond([status |-> 500,
                      json |-> [error |-> "CRON_SECRET is not set in the environment"]])
          /\ UNCHANGED <<net, timer>>
     ELSE IF ~isAuthed(req, env)
     THEN /\ Respond([status |-> 401, json |-> [error |-> "Unauthorized"]])
          /\ UNCHANGED <<net, timer>>
     ELSE IF missingStoreConfig(env)
     THEN /\ Respond([status |-> 500,
                      json |-> [error |-> "SUPABASE_URL or SUPABASE_KEY is not set"]])
          /\ UNCHANGED <<net, timer>>
     ELSE /\ net' = Append(net, Request("fetch", "GET", sourceUrl, TRUE, <<>>))
          /\ timer' = "abort"
          /\ pc' = "awaitPrimary"
          /\ res' = res

\* cron.js 67-70, 76, 142-143: the primary fetch resolves with the response
\* head; the timer is cleared and the handler goes on to read the body.
PrimaryResponds ==
  /\ pc = "awaitPrimary"
  /\ \E status \in PageStatuses :
       /\ pageResp' = [ok |-> isOk(status), status |-> status, via |-> "fetch"]
       /\ net' = Settled("response", status, Undefined)
       /\ pc' = IF isOk(status) THEN "awaitBody" ELSE "awaitErrorBody"
       /\ faults' = IF isOk(status) THEN faults
                    ELSE Append(faults, Fault("pageStatus", Undefined))
  /\ timer' = "none"
  /\ clock' = clock + 1
  /\ UNCHANGED <<viewVars, parseVars>>
  /\ UNCHANGED <<env, req, res, data, run>>

\* cron.js 65, 69-70, 77-84, 227-230: the timer fires, the fetch is aborted
\* and rejects; the error has no cause, so there is no fallback.
PrimaryTimeout ==
  /\ pc = "awaitPrimary"
  /\ timer = "abort"
  /\ timer' = "none"
  /\ net' = Settled("timeout", 0, Undefined)
  /\ faults' = Append(faults, Fault("pageTimeout", Undefined))
  /\ Throw("fetch", AbortError)
  /\ clock' = clock + 1
  /\ UNCHANGED <<viewVars, parseVars>>
  /\ UNCHANGED <<env, req, pageResp, data, run>>

\* cron.js 69-70, 77-88, 103-104: the primary fetch rejects; for one of the
\* TLS codes the page is requested again without certificate verification,
\* any other error is thrown on.
PrimaryFails ==
  /\ pc = "awaitPrimary"
  /\ \E code \in ErrorCodes :
       /\ faults' = Append(faults, Fault("pageFetch", code))
       /\ IF isTlsCode(code)
          THEN /\ net' = Append(Settled("error", 0, code),
                                Request("https.get", "GET", sourceUrl, FALSE, <<>>))
               /\ timer' = "socket"
               /\ pc' = "awaitFallback"
               /\ res' = res
          ELSE /\ net' = Settled("error", 0, code)
               /\ timer' = "none"
               /\ Throw("fetch", FetchFailed(code))
  /\ clock' = clock + 1
  /\ UNCHANGED <<viewVars, parseVars>>
  /\ UNCHANGED <<env, req, pageResp, data, run>>

\* cron.js 88-90: the response head of the fallback arrives.
FallbackResponse ==
  /\ pc = "awaitFallback"
  /\ \E code \in FallbackStatusCodes :
       LET status == IF code = -1 THEN 0 ELSE code    \* resp.statusCode ?? 0
       IN /\ data' = [status |-> status, body |-> <<>>, chunks |-> 0]
          /\ net' = Settled("response", status, Undefined)
  /\ pc' = "fallbackBody"
  /\ clock' = clock + 1
  /\ UNCHANGED <<viewVars, parseVars>>
  /\ UNCHANGED <<env, req, res, timer, pageResp, run, faults>>

\* cron.js 91-93: a chunk of the body arrives.
FallbackData ==
  /\ pc = "fallbackBody"
  /\ data.chunks < MaxChunks
  /\ \E chunk \in Chunks(isOk(data.status)) :
       data' = [data EXCEPT !.body = @ \o chunk, !.chunks = @ + 1]
  /\ clock' = clock + 1
  /\ UNCHANGED <<viewVars, parseVars>>
  /\ UNCHANGED <<env, req, pc, res, net, timer, pageResp, run, faults>>

\* cron.js 94-101, 143-194: the body of the fallback is complete; the promise
\* resolves and the handler goes on, text() yielding the collected data.
FallbackEnd ==
  /\ pc = "fallbackBody"
  /\ pageResp' = [ok |-> isOk(data.status), status |-> data.status, via |-> "https.get"]
  /\ clock' = clock + 1
  /\ UNCHANGED <<viewVars, parseVars>>
  /\ UNCHANGED <<env, req, data>>
  /\ IF isOk(data.status)
     THEN /\ Ingest(data.body, net)
          /\ faults' = faults
     ELSE /\ Respond(upstreamFailed(data.status, data.body))
          /\ faults' = Append(faults, Fault("pageStatus", Undefined))
          /\ timer' = "none"
          /\ UNCHANGED <<net, run>>

\* cron.js 103, 227-230: the fallback request fails with an 'error' event,
\* before or after the response head.
FallbackFails ==
  /\ pc \in {"awaitFallback", "fallbackBody"}
  /\ \E code \in {"ECONNRESET", "ECONNREFUSED"} :
       /\ net' = Settled("error", net[Len(net)].status, code)
       /\ Throw("fetch", RequestError(code))
       /\ faults' = Append(faults, Fault("fallbackFetch", code))
  /\ timer' = "none"
  /\ clock' = clock + 1
  /\ UNCHANGED <<viewVars, parseVars>>
  /\ UNCHANGED <<env, req, pageResp, data, run>>

\* cron.js 104, 103, 227-230: the socket of the fallback stays idle for the
\* timeout; the request is destroyed with the timeout error.
FallbackTimeout ==
  /\ pc \in {"awaitFallback", "fallbackBody"}
  /\ timer = "socket"
  /\ timer' = "none"
  /\ net' = Settled("timeout", net[Len(net)].status, Undefined)
  /\ Throw("fetch", SocketTimeout)
  /\ faults' = Append(faults, Fault("fallbackTimeout", Undefined))
  /\ clock' = clock + 1
  /\ UNCHANGED <<viewVars, parseVars>>
  /\ UNCHANGED <<env, req, pageResp, data, run>>

\* cron.js 91-103: the server closes the connection in the middle of the
\* body.  The response emits neither 'end' nor, having no listener for it,
\* 'error', and the request emits no 'error' once it has a response: the
\* promise of line 87 is never settled.
FallbackAborted ==
  /\ pc = "fallbackBody"
  /\ pc' = "pending"
  /\ timer' = "none"
  /\ net' = Settled("aborted", net[Len(net)].status, Undefined)
  /\ faults' = Append(faults, Fault("fallbackAborted", Undefined))
  /\ clock' = clock + 1
  /\ UNCHANGED <<viewVars, parseVars>>
  /\ UNCHANGED <<env, req, res, pageResp, data, run>>

\* cron.js 152-194: the body of the page is read through.
BodyArrives ==
  /\ pc = "awaitBody"
  /\ \E html \in Bodies(TRUE) : Ingest(html, net)
  /\ clock' = clock + 1
  /\ UNCHANGED <<viewVars, parseVars>>
  /\ UNCHANGED <<env, req, pageResp, data, faults>>

\* cron.js 152, 227-230: reading the body of the page fails.
BodyFails ==
  /\ pc = "awaitBody"
  /\ Throw("body", BodyFailed)
  /\ faults' = Append(faults, Fault("pageBody", Undefined))
  /\ clock' = clock + 1
  /\ UNCHANGED <<viewVars, parseVars>>
  /\ UNCHANGED <<env, req, net, timer, pageResp, data, run>>

\* cron.js 144-149: the body of a non-2xx page response is read, or reading
\* it fails and "" stands in for it.
ErrorBodyArrives ==
  /\ pc = "awaitErrorBody"
  /\ \E body \in Bodies(FALSE) : Respond(upstreamFailed(pageResp.status, body))
  /\ clock' = clock + 1
  /\ UNCHANGED <<viewVars, parseVars>>
  /\ UNCHANGED <<env, req, net, timer, pageResp, data, run, faults>>

ErrorBodyFails ==
  /\ pc = "awaitErrorBody"
  /\ Respond(upstreamFailed(pageResp.status, <<>>))
  /\ faults' = Append(faults, Fault("pageErrorBody", Undefined))
  /\ clock' = clock + 1
  /\ UNCHANGED <<viewVars, parseVars>>
  /\ UNCHANGED <<env, req, net, timer, pageResp, data, run>>

\* cron.js 181-194, 67-70, 208, 220-226: the store answers; the timer is
\* cleared.  A 2xx ends the run, anything else has its body read first.
StoreResponds ==
  /\ pc = "awaitStore"
  /\ \E status \in StoreStatuses :
       /\ net' = Settled("response", status, Undefined)
       /\ IF isOk(status)
          THEN /\ Respond(inserted(run))
               /\ faults' = faults
          ELSE /\ pc' = "awaitStoreErrorBody"
               /\ res' = res
               /\ faults' = Append(faults, Fault("storeStatus", Undefined))
  /\ timer' = "none"
  /\ clock' = clock + 1
  /\ UNCHANGED <<viewVars, parseVars>>
  /\ UNCHANGED <<env, req, pageResp, data, run>>

\* cron.js 65, 69-70, 195-205: the timer fires and the store write is aborted.
StoreTimeout ==
  /\ pc = "awaitStore"
  /\ timer = "abort"
  /\ timer' = "none"
  /\ net' = Settled("timeout", 0, Undefined)
  /\ Throw("store", AbortError)
  /\ faults' = Append(faults, Fault("storeTimeout", Undefined))
  /\ clock' = clock + 1
  /\ UNCHANGED <<viewVars, parseVars>>
  /\ UNCHANGED <<env, req, pageResp, data, run>>

\* cron.js 69-70, 195-205: the store write rejects.
StoreFails ==
  /\ pc = "awaitStore"
  /\ \E code \in {"ECONNREFUSED", Undefined} :
       /\ net' = Settled("error", 0, code)
       /\ Throw("store", FetchFailed(code))
       /\ faults' = Append(faults, Fault("storeFetch", code))
  /\ timer' = "none"
  /\ clock' = clock + 1
  /\ UNCHANGED <<viewVars, parseVars>>
  /\ UNCHANGED <<env, req, pageResp, data, run>>

\* cron.js 209-217: the body of the store's non-2xx answer is read, or
\* reading it fails and "" stands in for it.
StoreErrorBodyArrives ==
  /\ pc = "awaitStoreErrorBody"
  /\ \E body \in StoreErrorBodies :
       Respond(storeRefused(net[Len(net)].status, body, run))
  /\ clock' = clock + 1
  /\ UNCHANGED <<viewVars, parseVars>>
  /\ UNCHANGED <<env, req, net, timer, pageResp, data, run, faults>>

StoreErrorBodyFails ==
  /\ pc = "awaitStoreErrorBody"
  /\ Respond(storeRefused(net[Len(net)].status, <<>>, run))
  /\ faults' = Append(faults, Fault("storeErrorBody", Undefined))
  /\ clock' = clock + 1
  /\ UNCHANGED <<viewVars, parseVars>>
  /\ UNCHANGED <<env, req, net, timer, pageResp, data, run>>

Next ==
  \/ HandlerEntry
  \/ PrimaryResponds
  \/ PrimaryTimeout
  \/ PrimaryFails
  \/ FallbackResponse
  \/ FallbackData
  \/ FallbackEnd
  \/ FallbackFails
  \/ FallbackTimeout
  \/ FallbackAborted
  \/ BodyArrives
  \/ BodyFails
  \/ ErrorBodyArrives
  \/ ErrorBodyFails
  \/ StoreResponds
  \/ StoreTimeout
  \/ StoreFails
  \/ StoreErrorBodyArrives
  \/ StoreErrorBodyFails

Spec == Init /\ [][Next]_vars

\* The timers the run arms fire (setTimeout of line 65, the socket timeout of
\* line 104) and the handler runs when it is triggered; nothing is assumed of
\* the source server and of the store.
FairSpec ==
  /\ Spec
  /\ WF_vars(HandlerEntry)
  /\ WF_vars(PrimaryTimeout)
  /\ WF_vars(FallbackTimeout)
  /\ WF_vars(StoreTimeout)

(***************************************************************************)
(* The store as the dashboard reads it (lib/env.ts 63-67).                 *)
(***************************************************************************)
\* At most MaxRefreshes calls of fetchRows are started.
MaxRefreshes == 3

\* The store answers with at most MaxRows rows.
MaxRows == 3

\* The readings the table holds.
Readings ==
  { Row("South Garage", 50, <<2024, 1, 1, 10>>),
    Row("South Garage", 70, <<2024, 1, 1, 14>>),
    Row("North Garage", 100, <<2024, 1, 1, 12>>),
    Row("South Garage", 75, <<2023, 12, 31, 23>>),
    Row("North Garage", 70, <<2024, 1, 2, 3>>),
    Row("Lot X", 10, <<2024, 1, 1, 12>>) }

\* .order("fetched_at", { ascending: false })
Descending(rows) ==
  \A i \in 1..Len(rows) : \A j \in (i + 1)..Len(rows) :
    parseDate(rows[i].fetched_at) >= parseDate(rows[j].fetched_at)

\* What a query can resolve with: rows of the table, newest first, no more
\* than the limit.
StoreResults ==
  {rows \in UNION {[1..n -> Readings] : n \in 0..MaxRows} :
     /\ Len(rows) <= DEFAULT_LIMIT
     /\ \A i \in 1..Len(rows) : \A j \in 1..Len(rows) : rows[i] = rows[j] => i = j
     /\ Descending(rows)}

\* The answers of the store while the dashboard refreshes: no data, and the
\* table at two moments.
Answers ==
  { [null |-> TRUE, rows |-> <<>>],
    [null |-> FALSE,
     rows |-> << Row("North Garage", 100, <<2024, 1, 1, 12>>),
                 Row("South Garage", 50, <<2024, 1, 1, 10>>) >>],
    [null |-> FALSE,
     rows |-> << Row("South Garage", 70, <<2024, 1, 1, 14>>),
                 Row("North Garage", 100, <<2024, 1, 1, 12>>),
                 Row("South Garage", 50, <<2024, 1, 1, 10>>) >>] }

\* error.message of a query that resolves with an error
ErrorMessages == {"permission denied for table garage_status", "TypeError: Failed to fetch"}

\* UTC offsets of the browser, in hours
Offsets == {-8, 0, 10}

\* The rows in any order.
Orderings(rows) ==
  {s \in [1..Len(rows) -> {rows[i] : i \in 1..Len(rows)}] :
     \A i \in 1..Len(rows) : \A j \in 1..Len(rows) : s[i] = s[j] => i = j}

(***************************************************************************)
(* The refreshes of the hook (lib/env.ts 51-94, Dashboard.tsx 51-59).      *)
(***************************************************************************)
ViewInit ==
  /\ CronIdle
  /\ ParseIdle
  /\ client \in {"ready", "missing"}
  /\ tz = 0
  /\ mounted = FALSE
  /\ state = InitialState
  /\ calls = <<>>
  /\ log = <<>>
  /\ now = 0
  /\ views = Render(InitialState.rows)
  /\ props = <<>>
  /\ dailyData = NoChart

\* lib/env.ts 51-67: fetchRows up to its await, and the render that follows.
StartRefresh(source) ==
  /\ Len(calls) < MaxRefreshes
  /\ \E next \in {IF client = "missing" THEN unavailable(starting(state))
                  ELSE starting(state)} :
       /\ state' = next
       /\ views' = Render(next.rows)
  /\ calls' = Append(calls, Call(source,
                                 IF client = "missing" THEN "noClient" ELSE "pending",
                                 [state |-> state, views |-> views]))
  /\ log' = Append(log, Event(IF client = "missing" THEN "noClient" ELSE "start",
                              Len(calls) + 1))
  /\ now' = now + 1
  /\ UNCHANGED <<client, tz, props, dailyData>>
  /\ UNCHANGED <<cronVars, parseVars>>

\* lib/env.ts 86-94: the effects run after the first render.
Mount ==
  /\ ~mounted
  /\ mounted' = TRUE
  /\ StartRefresh("mount")

\* lib/env.ts 92: the interval fires.
IntervalFires ==
  /\ mounted
  /\ UNCHANGED mounted
  /\ StartRefresh("interval")

\* Dashboard.tsx 51-59: Refresh is clicked; the button is disabled while
\* isLoading.
ManualRefetch ==
  /\ mounted
  /\ ~state.isLoading
  /\ UNCHANGED mounted
  /\ StartRefresh("manual")

\* lib/env.ts 63-68, 78-83: a query resolves without error.
QueryResolves ==
  \E i \in 1..Len(calls) : \E d \in Answers :
    /\ calls[i].status = "pending"
    /\ \E next \in {IF applies(i, calls) THEN loaded(state, d, now + 1) ELSE state} :
         /\ state' = next
         /\ views' = Render(next.rows)
    /\ calls' = [calls EXCEPT ![i].status = "loaded", ![i].data = d]
    /\ log' = Append(log, Event("loaded", i))
    /\ now' = now + 1
    /\ UNCHANGED <<client, tz, mounted, props, dailyData>>
    /\ UNCHANGED <<cronVars, parseVars>>

\* lib/env.ts 63-76: a query resolves with an error.
QueryFails ==
  \E i \in 1..Len(calls) : \E message \in ErrorMessages :
    /\ calls[i].status = "pending"
    /\ \E next \in {failed(state, message)} :
         /\ state' = next
         /\ views' = Render(next.rows)
    /\ calls' = [calls EXCEPT ![i].status = "failed"]
    /\ log' = Append(log, Event("failed", i))
    /\ now' = now + 1
    /\ UNCHANGED <<client, tz, mounted, props, dailyData>>
    /\ UNCHANGED <<cronVars, parseVars>>

\* lib/env.ts 63, 87, 92, Dashboard.tsx 53: the awaited query rejects.  No
\* try encloses the await, so the promise of fetchRows rejects; its callers
\* discard it with void.
QueryRejects ==
  \E i \in 1..Len(calls) :
    /\ calls[i].status = "pending"
    /\ calls' = [calls EXCEPT ![i].status = "rejected"]
    /\ log' = Append(log, Event("rejected", i))
    /\ now' = now + 1
    /\ UNCHANGED <<client, tz, mounted, state, views, props, dailyData>>
    /\ UNCHANGED <<cronVars, parseVars>>

ViewNext ==
  \/ Mount
  \/ IntervalFires
  \/ ManualRefetch
  \/ QueryResolves
  \/ QueryFails
  \/ QueryRejects

ViewSpec == ViewInit /\ [][ViewNext]_vars

(***************************************************************************)
(* The derived views of a record set (lib/env.ts 96-112,                   *)
(* AreaChart.tsx 42-105).                                                  *)
(***************************************************************************)
DeriveInit ==
  /\ CronIdle
  /\ ParseIdle
  /\ client = "ready"
  /\ tz \in Offsets
  /\ mounted = TRUE
  /\ state \in {loaded(InitialState, [null |-> FALSE, rows |-> rows], 1) :
                  rows \in StoreResults}
  /\ calls = <<>>
  /\ log = <<>>
  /\ now = 1
  /\ views = NoViews
  /\ props \in Orderings(state.rows)
  /\ dailyData = NoChart

\* lib/env.ts 96-125: the hook renders with the rows it holds.
RenderViews ==
  /\ ~views.rendered
  /\ views' = Render(state.rows)
  /\ UNCHANGED <<client, tz, mounted, state, calls, log, now, props, dailyData>>
  /\ UNCHANGED <<cronVars, parseVars>>

\* AreaChart.tsx 41-105: the chart renders with the rows it is given.
RenderChart ==
  /\ ~dailyData.rendered
  /\ dailyData' = [rendered |-> TRUE, data |-> dailyDataOf(props, tz)]
  /\ UNCHANGED <<client, tz, mounted, state, calls, log, now, views, props>>
  /\ UNCHANGED <<cronVars, parseVars>>

DeriveNext ==
  \/ RenderViews
  \/ RenderChart

DeriveSpec == DeriveInit /\ [][DeriveNext]_vars

(***************************************************************************)
(* The extraction of the statuses from a page (cron.js 152-156).           *)
(***************************************************************************)
\* A page is made of at most MaxFragments fragments.
MaxFragments == 4

\* What a page is made of: three of the names, two values (one in markup)
\* and a run of U+0130.
Fragments ==
  { <<"S","o","u","t","h"," ","G","a","r","a","g","e">>,
    <<" ","N","o","r","t","h"," ","G","a","r","a","g","e">>,
    <<" ","S","o","u","t","h"," ","C","a","m","p","u","s"," ","G","a","r","a","g","e">>,
    <<" ","4","5","%">>,
    <<" ","<","b",">","F","u","l","l","<","/","b",">">>,
    [i \in 1..16 |-> DottedI] }

RECURSIVE Join(_, _)
\* The fragments fs[1..n] one after the other.
Join(fs, n) == IF n = 0 THEN <<>> ELSE Join(fs, n - 1) \o fs[n]

Pages == {Join(fs, Len(fs)) : fs \in UNION {[1..n -> Fragments] : n \in 0..MaxFragments}}

ParseInit ==
  /\ CronIdle
  /\ ViewIdle
  /\ \E html \in Pages : page = [NoPage EXCEPT !.stage = "html", !.html = html]

\* cron.js 153: const text = htmlToText(html)
Normalize ==
  /\ page.stage = "html"
  /\ \E text \in {htmlToText(page.html)} :
       page' = [page EXCEPT !.stage = "text", !.text = text]
  /\ UNCHANGED <<cronVars, viewVars>>

\* cron.js 156: const statuses = parseStatuses(text)
Extract ==
  /\ page.stage = "text"
  /\ \E statuses \in {parseStatuses(page.text)} :
       page' = [page EXCEPT !.stage = "statuses", !.statuses = statuses]
  /\ UNCHANGED <<cronVars, viewVars>>

ParseNext ==
  \/ Normalize
  \/ Extract

ParseSpec == ParseInit /\ [][ParseNext]_vars

(***************************************************************************)
(* Vocabulary of the properties.                                           *)
(***************************************************************************)
Posts == {i \in 1..Len(net) : net[i].method = "POST"}

HasError(r) == "error" \in DOMAIN r.json

Happened(kinds) == \E i \in 1..Len(faults) : faults[i].kind \in kinds

LastFaultIn(kinds) == faults # <<>> /\ faults[Len(faults)].kind \in kinds

TheThreeCodes ==
  {"UNABLE_TO_VERIFY_LEAF_SIGNATURE", "DEPTH_ZERO_SELF_SIGNED_CERT",
   "SELF_SIGNED_CERT_IN_CHAIN"}

\* A failure that raises an error in the handler and is not recovered from.
Raises(f) ==
  \/ f.kind \in {"pageTimeout", "fallbackFetch", "fallbackTimeout", "pageBody",
                 "storeFetch", "storeTimeout"}
  \/ f.kind = "pageFetch" /\ f.code \notin TheThreeCodes

ErrorResponse(r) ==
  /\ r.status \in {500, 502}
  /\ HasError(r)
  /\ r.json.error \in {"Cron failed", "Supabase insert failed",
                       "Failed to fetch garage status page"}

StoreUnconfigured == env.SUPABASE_URL = <<>> \/ env.SUPABASE_KEY = ""

C2_NoNetworkWithoutStoreConfig ==
  StoreUnconfigured =>
    /\ net = <<>>
    /\ pc \in {"trigger", "done"}
    /\ (pc = "done" /\ res[1].status \notin {405, 401}) =>
         /\ res[1].status = 500
         /\ res[1].json.error \in {"CRON_SECRET is not set in the environment",
                                   "SUPABASE_URL or SUPABASE_KEY is not set"}

C2_StoreConfigReported ==
  /\ env.SUPABASE_URL # <<>>
  /\ env.SUPABASE_KEY = ""
  /\ pc = "done"
  /\ net = <<>>
  /\ res[1].json.error = "SUPABASE_URL or SUPABASE_KEY is not set"

(***************************************************************************)
(* C3: a request that skips certificate verification is the second request *)
(* of its run, follows a primary fetch that has failed with one of the     *)
(* three codes, is a GET of the same URL, and is never the store write;    *)
(* a primary fetch that fails in any other way, a timeout included, ends   *)
(* the run with that error and no second request.                          *)
(***************************************************************************)
C3_FallbackOnlyForTlsCodes ==
  /\ \A i \in 1..Len(net) :
       ~net[i].rejectUnauthorized =>
         /\ i = 2
         /\ net[1].rejectUnauthorized
         /\ net[1].outcome = "error"
         /\ net[1].code \in TheThreeCodes
         /\ net[i].method = "GET"
         /\ net[i].url = net[1].url
  /\ \A i \in Posts : net[i].rejectUnauthorized /\ net[i].kind = "fetch"
  /\ \A i \in 1..Len(net) : \A j \in 1..Len(net) :
       (~net[i].rejectUnauthorized /\ ~net[j].rejectUnauthorized) => i = j
  /\ ( /\ net # <<>>
       /\ net[1].outcome \in {"error", "timeout"}
       /\ ~(net[1].outcome = "error" /\ net[1].code \in TheThreeCodes) ) =>
         /\ Len(net) = 1
         /\ pc = "done"
         /\ res[1].status = 500
         /\ res[1].json.error = "Cron failed"
         /\ res[1].json.causeCode = net[1].code

C3_FallbackTaken ==
  /\ Len(net) >= 2
  /\ ~net[2].rejectUnauthorized
  /\ net[1].code = "DEPTH_ZERO_SELF_SIGNED_CERT"
  /\ net[2].outcome = "response"

(***************************************************************************)
(* C4: in every batch sent to the store all rows have the same fetched_at  *)
(* and source_url, no garage occurs twice, every garage is a known name,   *)
(* and a garage has a row only if its segment of the page text (from the   *)
(* first occurrence of the name to the next name found) holds, after the   *)
(* name, white space followed by "Full" or by digits and a percent sign.   *)
(***************************************************************************)
\* The word w is read in text at index i, letters compared without case.
Reads(text, i, w) ==
  /\ i >= 1
  /\ i + Len(w) - 1 <= Len(text)
  /\ \A k \in 1..Len(w) : LowerChar(text[i + k - 1]) = LowerChar(w[k])

\* The first index at which w is read, 0 when it is nowhere.
FirstIndex(text, w) ==
  IF \E i \in 1..Len(text) : Reads(text, i, w)
  THEN CHOOSE i \in 1..Len(text) :
         Reads(text, i, w) /\ \A j \in 1..(i - 1) : ~Reads(text, j, w)
  ELSE 0

KnownGarages == {garageNames[i] : i \in 1..Len(garageNames)}

\* The last index of the segment of the garage found at index at.
SegmentEnd(text, at) ==
  LET later == {FirstIndex(text, h) : h \in KnownGarages} \cap ((at + 1)..Len(text))
  IN IF later = {} THEN Len(text)
     ELSE (CHOOSE m \in later : \A n \in later : m <= n) - 1

\* "Full", or digits, optional white space and "%", at index k and within e.
ValueAt(text, k, e) ==
  \/ k + 3 <= e /\ Reads(text, k, <<"F", "u", "l", "l">>)
  \/ \E d \in 1..(e - k) :
       /\ \A n \in k..(k + d - 1) : IsDigit(text[n])
       /\ \E w \in 0..(e - k - d) :
            /\ \A n \in (k + d)..(k + d + w - 1) : IsSpace(text[n])
            /\ text[k + d + w] = "%"

HasValue(text, g) ==
  \E at \in {FirstIndex(text, g)} : \E e \in {SegmentEnd(text, at)} :
    /\ at >= 1
    /\ \E j \in (at + Len(g))..e : IsSpace(text[j]) /\ ValueAt(text, j + 1, e)

C4_BatchWellFormed ==
  \A i \in Posts : \E batch \in {net[i].body} :
    /\ \A j \in 1..Len(batch) : \A k \in 1..Len(batch) :
         /\ batch[j].fetched_at = batch[k].fetched_at
         /\ batch[j].source_url = batch[k].source_url
         /\ j # k => batch[j].garage # batch[k].garage
    /\ \A j \in 1..Len(batch) :
         /\ batch[j].garage \in KnownGarages
         /\ HasValue(run.text, batch[j].garage)

C4_PartialBatch ==
  /\ pc = "awaitStore"
  /\ Len(net[Len(net)].body) = 1
  /\ \E g \in KnownGarages :
       /\ FirstIndex(run.text, g) >= 1
       /\ ~HasValue(run.text, g)

(***************************************************************************)
(* C5: when the page has been read and no garage is extracted from it, the *)
(* run ends at once with a 200 that says ok, inserted 0 and carries a      *)
(* note, has no error field, and no store write is issued.                 *)
(***************************************************************************)
C5_ZeroGaragesIsSuccess ==
  (run.fetchedAt > 0 /\ run.statuses = <<>>) =>
    /\ pc = "done"
    /\ Posts = {}
    /\ Len(res) = 1
    /\ res[1].status = 200
    /\ ~HasError(res[1])
    /\ res[1].json.ok = TRUE
    /\ res[1].json.inserted = 0
    /\ "note" \in DOMAIN res[1].json

C5_NothingInserted ==
  /\ run.fetchedAt > 0
  /\ run.statuses = <<>>
  /\ run.text # <<>>
  /\ pc = "done"
  /\ res[1].json.inserted = 0

(***************************************************************************)
(* C6: when the page fetch, on either path, resolves with a status outside *)
(* 200..299, the run ends with a 502 "Failed to fetch garage status page"  *)
(* that carries the status and at most the first 500 characters of the     *)
(* body; nothing is extracted and no store write is issued.                *)
(***************************************************************************)
IsPrefix(a, b) == Len(a) <= Len(b) /\ \A k \in 1..Len(a) : a[k] = b[k]

C6_UpstreamFetchError ==
  (pageResp.via # "none" /\ (pageResp.status < 200 \/ pageResp.status > 299)) =>
    /\ run = NoRun
    /\ Posts = {}
    /\ pc \in {"awaitErrorBody", "done"}
    /\ pc = "done" =>
         /\ Len(res) = 1
         /\ res[1].status = 502
         /\ res[1].json.error = "Failed to fetch garage status page"
         /\ res[1].json.status = pageResp.status
         /\ Len(res[1].json.body) <= 500
         /\ pageResp.via = "https.get" => IsPrefix(res[1].json.body, data.body)

C6_LongBodyCut ==
  /\ pageResp.via = "https.get"
  /\ pageResp.status = 300
  /\ Len(data.body) > 500
  /\ pc = "done"
  /\ Len(res[1].json.body) = 500

(***************************************************************************)
(* C7: when the store write throws, times out or is answered non-2xx, the  *)
(* run ends with a 502 "Supabase insert failed" whose fetchedAt,           *)
(* lastUpdated and statuses are those of the rows that were submitted.     *)
(***************************************************************************)
StoreFaults == {"storeFetch", "storeTimeout", "storeStatus"}

C7_StoreWriteErrorKeepsProgress ==
  (Happened(StoreFaults) /\ pc = "done") =>
    \E batch \in {net[Len(net)].body} : \E j \in {res[1].json} :
      /\ net[Len(net)].method = "POST"
      /\ res[1].status = 502
      /\ j.error = "Supabase insert failed"
      /\ {"fetchedAt", "lastUpdated", "statuses"} \subseteq DOMAIN j
      /\ Len(j.statuses) = Len(batch)
      /\ \A k \in 1..Len(batch) :
           /\ batch[k].fetched_at = j.fetchedAt
           /\ batch[k].last_updated = j.lastUpdated
           /\ j.statuses[k] = [garage |-> batch[k].garage, status |-> batch[k].status]

C7_StoreTimedOut ==
  /\ LastFaultIn({"storeTimeout"})
  /\ pc = "done"
  /\ res[1].json.error = "Supabase insert failed"
  /\ Len(res[1].json.statuses) = 2

(***************************************************************************)
(* C8: a run whose page fetch or store write is aborted by its timeout     *)
(* ends with a response of a category of its own, which is none of the     *)
(* categories a fetch that fails otherwise ends with.                      *)
(***************************************************************************)
Timeouts == {"pageTimeout", "fallbackTimeout", "storeTimeout"}

C8_TimeoutIsTyped ==
  (pc = "done" /\ LastFaultIn(Timeouts)) =>
    res[1].json.error \notin {"Cron failed", "Supabase insert failed"}

C8_TimeoutReportedAsCronFailed ==
  /\ pc = "done"
  /\ LastFaultIn({"pageTimeout"})
  /\ res = <<cronFailed(AbortError)>>

(***************************************************************************)
(* C9: every run eventually ends with a response, provided only that the   *)
(* timers the run has armed fire.                                          *)
(***************************************************************************)
C9_RunTerminates == <>(pc = "done")

C9_BodyAwaitedWithoutTimer ==
  /\ pc \in {"awaitBody", "awaitErrorBody", "awaitStoreErrorBody"}
  /\ timer = "none"

(***************************************************************************)
(* C10: every row sent to the store has a status in 0..100.                *)
(***************************************************************************)
C10_StatusInRange ==
  \A i \in Posts : \A k \in 1..Len(net[i].body) :
    net[i].body[k].status \in 0..100

C10_StatusAboveHundred ==
  \E i \in Posts : \E k \in 1..Len(net[i].body) :
    /\ net[i].body[k].status = 150
    /\ indexOf(run.text, <<"1", "5", "0", " ", "%">>) >= 0

(***************************************************************************)
(* C11: a request causes a page fetch or a store write only if its method  *)
(* is GET or HEAD and it presents the configured secret, as the bearer     *)
(* credential or as the (first) token parameter of the query; every other  *)
(* method is answered 405 and every other caller 401.                      *)
(***************************************************************************)
PresentsBearer ==
  /\ env.CRON_SECRET # ""
  /\ req.authorization = <<"Bearer ", env.CRON_SECRET>>

PresentsToken ==
  /\ env.CRON_SECRET # ""
  /\ Len(req.query.token) >= 1
  /\ req.query.token[1] = env.CRON_SECRET

C11_OnlySecretCausesIO ==
  /\ net # <<>> => (req.method \in {"GET", "HEAD"} /\ (PresentsBearer \/ PresentsToken))
  /\ (pc = "done" /\ req.method \notin {"GET", "HEAD"}) =>
       (res[1].status = 405 /\ net = <<>>)
  /\ ( /\ pc = "done"
       /\ req.method \in {"GET", "HEAD"}
       /\ env.CRON_SECRET # ""
       /\ ~(PresentsBearer \/ PresentsToken) ) =>
         (res[1].status = 401 /\ net = <<>>)

\* C11 as it is stated: network I/O only for the bearer credential.
C11_OnlyBearerCausesIO == net # <<>> => PresentsBearer

C11_TokenCausesIO ==
  /\ net # <<>>
  /\ req.method = "HEAD"
  /\ ~PresentsBearer
  /\ PresentsToken

(***************************************************************************)
(* Vocabulary of the dashboard's properties.                               *)
(***************************************************************************)
Pending == {i \in 1..Len(calls) : calls[i].status = "pending"}

LastIs(kinds) == log # <<>> /\ log[Len(log)].kind \in kinds

\* The step appends an event of one of the kinds to the log.
Logs(kinds) == Len(log') = Len(log) + 1 /\ log'[Len(log')].kind \in kinds

\* The calls whose query resolved without error, in completion order.
Loads == SelectSeq(log, LAMBDA e : e.kind = "loaded")

\* The rows a call's query resolved with.
RowsOf(d) == IF d.null THEN <<>> ELSE d.rows

(***************************************************************************)
(* C12: when a query resolves with an error, rows, refreshedAt and the     *)
(* two derived views are what they were immediately before that answer     *)
(* arrived, error is set and isLoading is false; they are what they were   *)
(* when that refresh started unless another refresh has loaded rows in     *)
(* between.                                                                *)
(***************************************************************************)
LoadedSince(i) ==
  \E k \in 1..Len(log) : \E m \in 1..Len(log) :
    /\ k < m
    /\ log[k] = Event("start", i)
    /\ log[m].kind = "loaded"

C12_FailureKeepsWhatIsHeld ==
  /\ [][ Logs({"failed"}) =>
           /\ state'.rows = state.rows
           /\ state'.refreshedAt = state.refreshedAt
           /\ views' = views
           /\ state'.error # <<>>
           /\ ~state'.isLoading ]_vars
  /\ [](\A i \in 1..Len(calls) :
          (LastIs({"failed"}) /\ log[Len(log)].call = i /\ ~LoadedSince(i)) =>
            /\ state.rows = calls[i].before.state.rows
            /\ state.refreshedAt = calls[i].before.state.refreshedAt
            /\ views = calls[i].before.views)

\* C12 as it is stated: after a failed read that started after a successful
\* load, everything is as it was before that refresh started.
C12_AsBeforeTheRefresh ==
  \A i \in 1..Len(calls) :
    ( /\ LastIs({"failed"})
      /\ log[Len(log)].call = i
      /\ calls[i].before.state.refreshedAt # 0 ) =>
        /\ state.rows = calls[i].before.state.rows
        /\ state.refreshedAt = calls[i].before.state.refreshedAt
        /\ views = calls[i].before.views
        /\ state.error # <<>>
        /\ ~state.isLoading

C12_FailedAfterAnotherLoad ==
  /\ LastIs({"failed"})
  /\ calls[log[Len(log)].call].before.state.refreshedAt # 0
  /\ calls[log[Len(log)].call].before.state.rows # state.rows
  /\ state.rows # <<>>
  /\ state.error # <<>>

(***************************************************************************)
(* C13: however a read fails (the client is missing, the query resolves    *)
(* with an error, the query rejects), the refresh ends with error set and  *)
(* isLoading false, and no call of fetchRows rejects.                      *)
(***************************************************************************)
C13_EveryFailureShown ==
  /\ \A i \in 1..Len(calls) : calls[i].status # "rejected"
  /\ LastIs({"failed", "rejected", "noClient"}) =>
       (state.error # <<>> /\ ~state.isLoading)

C13_RejectedLeavesLoading ==
  /\ LastIs({"rejected"})
  /\ Pending = {}
  /\ state.isLoading
  /\ state.error = <<>>

(***************************************************************************)
(* C14: once no refresh is in flight, rows are the rows of the query that  *)
(* resolved last without error, whatever the order the calls started in.   *)
(***************************************************************************)
C14_LastCompletionWins ==
  (Pending = {} /\ Loads # <<>>) =>
    state.rows = RowsOf(calls[Loads[Len(Loads)].call].data)

C14_OlderCallCompletesLast ==
  /\ Pending = {}
  /\ Len(Loads) >= 2
  /\ Loads[Len(Loads)].call < Loads[Len(Loads) - 1].call
  /\ calls[Loads[Len(Loads)].call].data # calls[Loads[Len(Loads) - 1].call].data
  /\ state.rows = RowsOf(calls[Loads[Len(Loads)].call].data)
  /\ state.rows # <<>>

(***************************************************************************)
(* C15: rows change only in the step in which a query resolves without     *)
(* error, and then to the rows of that answer; in every state rows are     *)
(* empty or the whole row list of one answer.                              *)
(***************************************************************************)
C15_RowsReplacedWhole ==
  /\ [](state.rows = <<>> \/ \E d \in Answers : ~d.null /\ state.rows = d.rows)
  /\ [][ state'.rows # state.rows =>
           /\ Logs({"loaded"})
           /\ state'.rows = RowsOf(calls'[log'[Len(log')].call].data) ]_vars
  /\ [][ Logs({"start", "failed", "noClient", "rejected"}) =>
           state'.rows = state.rows ]_vars

C15_RefreshStartedOverRows ==
  /\ LastIs({"start"})
  /\ state.rows # <<>>
  /\ state.isLoading
  /\ \E i \in 1..Len(calls) : calls[i].status = "failed"

(***************************************************************************)
(* C16: latest-by-garage has an entry for exactly the garages that have a  *)
(* row, and the entry of a garage is its first row in the order of the     *)
(* store, which no row of that garage exceeds in fetched_at.               *)
(***************************************************************************)
GaragesOf(rows) == {rows[i].garage : i \in 1..Len(rows)}

\* ISO strings of the same form compare as their fields do.
IsoLeq(a, b) ==
  \/ a = b
  \/ \E k \in 1..4 : a[k] < b[k] /\ \A n \in 1..(k - 1) : a[n] = b[n]

C16_LatestIsMostRecent ==
  views.rendered =>
    /\ DOMAIN views.latestByGarage = GaragesOf(state.rows)
    /\ \A g \in GaragesOf(state.rows) :
         /\ views.latestByGarage[g].garage = g
         /\ \E i \in 1..Len(state.rows) :
              /\ views.latestByGarage[g] = state.rows[i]
              /\ \A j \in 1..(i - 1) : state.rows[j].garage # g
         /\ \A i \in 1..Len(state.rows) :
              state.rows[i].garage = g =>
                IsoLeq(state.rows[i].fetched_at, views.latestByGarage[g].fetched_at)

C16_GarageWithOlderRow ==
  /\ views.rendered
  /\ \E i \in 1..Len(state.rows) : \E j \in 1..Len(state.rows) :
       /\ i < j
       /\ state.rows[i].garage = state.rows[j].garage
       /\ state.rows[i].fetched_at # state.rows[j].fetched_at
       /\ views.latestByGarage[state.rows[i].garage] = state.rows[i]

(***************************************************************************)
(* C17: for the three rows of the example in descending order (A at 14:00  *)
(* with 70, B at 12:00 with 100, A at 10:00 with 50; A is South Garage, B  *)
(* North Garage) latest-by-garage is {A: the row with 70, B: the row with  *)
(* 100}, and where the three instants fall on the local day 2024-01-01 the *)
(* daily average has the one point of January 1 with A 60, B 100 and 0     *)
(* for the other known garages.                                            *)
(***************************************************************************)
Example ==
  << Row("South Garage", 70, <<2024, 1, 1, 14>>),
     Row("North Garage", 100, <<2024, 1, 1, 12>>),
     Row("South Garage", 50, <<2024, 1, 1, 10>>) >>

ExampleRendered ==
  /\ state.rows = Example
  /\ views.rendered
  /\ props = Example
  /\ dailyData.rendered

C17_ExampleDescending ==
  ExampleRendered =>
    /\ views.latestByGarage = ("South Garage" :> Example[1] @@ "North Garage" :> Example[2])
    /\ tz \in {-8, 0} =>
         dailyData.data =
           << [date |-> <<0, 1>>,
               values |-> ("South Garage" :> 60 @@ "North Garage" :> 100 @@
                           "West Garage" :> 0 @@ "South Campus Garage" :> 0)] >>

\* C17 as it is stated: the latest row of A is the one with 50.
C17_ExampleAsStated ==
  ExampleRendered =>
    /\ views.latestByGarage = ("South Garage" :> Example[3] @@ "North Garage" :> Example[2])
    /\ \E i \in 1..Len(dailyData.data) :
         /\ dailyData.data[i].date = <<0, 1>>
         /\ dailyData.data[i].values["South Garage"] = 60
         /\ dailyData.data[i].values["North Garage"] = 100

C17_ExampleInCalifornia ==
  /\ ExampleRendered
  /\ tz = -8
  /\ views.latestByGarage["South Garage"].status = 70
  /\ Len(dailyData.data) = 1

(***************************************************************************)
(* C18: history-by-garage has an entry for exactly the garages that have a *)
(* row, and the entry of a garage is the rows of that garage in the order  *)
(* they have in the record set.                                            *)
(***************************************************************************)
C18_HistoryKeepsOrder ==
  views.rendered =>
    /\ DOMAIN views.historyByGarage = GaragesOf(state.rows)
    /\ \A g \in GaragesOf(state.rows) :
         views.historyByGarage[g] = SelectSeq(state.rows, LAMBDA r : r.garage = g)

C18_InterleavedGarages ==
  /\ views.rendered
  /\ Len(state.rows) = 3
  /\ state.rows[1].garage = state.rows[3].garage
  /\ state.rows[1].garage # state.rows[2].garage
  /\ Len(views.historyByGarage[state.rows[1].garage]) = 2

(***************************************************************************)
(* C19: the chart has one data point for every local day on which a row    *)
(* falls, the days ascending whatever the order of the rows; a point gives *)
(* every known garage the mean of its statuses of that day, rounded (a     *)
(* half upwards), and 0 to a garage that has no row on that day.           *)
(***************************************************************************)
NextDay(d) ==
  IF d[2] = 12 /\ d[3] = 31 THEN <<d[1] + 1, 1, 1>>
  ELSE IF d[3] = 31 THEN <<d[1], d[2] + 1, 1>>
  ELSE <<d[1], d[2], d[3] + 1>>

PrevDay(d) ==
  IF d[2] = 1 /\ d[3] = 1 THEN <<d[1] - 1, 12, 31>>
  ELSE IF d[3] = 1 THEN <<d[1], d[2] - 1, 31>>
  ELSE <<d[1], d[2], d[3] - 1>>

\* The local calendar day <<year, month, day>> of an ISO string.
LocalDay(iso) ==
  IF iso[4] + tz >= 24 THEN NextDay(<<iso[1], iso[2], iso[3]>>)
  ELSE IF iso[4] + tz < 0 THEN PrevDay(<<iso[1], iso[2], iso[3]>>)
  ELSE <<iso[1], iso[2], iso[3]>>

Earlier(a, b) == a # b /\ IsoLeq(a \o <<0>>, b \o <<0>>)

LocalDays == {LocalDay(props[i].fetched_at) : i \in 1..Len(props)}

\* The indices of the rows of a garage on a local day.
RowsOn(day, g) ==
  {i \in 1..Len(props) : props[i].garage = g /\ LocalDay(props[i].fetched_at) = day}

RECURSIVE Total(_)
Total(indices) ==
  IF indices = {} THEN 0
  ELSE LET i == CHOOSE k \in indices : TRUE
       IN props[i].status + Total(indices \ {i})

\* n is the mean of the statuses at the indices, rounded.
IsRoundedMean(n, indices) ==
  \E c \in {Cardinality(indices)} : \E t \in {Total(indices)} :
    /\ 2 * n * c <= 2 * t + c
    /\ 2 * t + c < 2 * (n + 1) * c

C19_DailyAverages ==
  dailyData.rendered =>
    /\ Len(dailyData.data) = Cardinality(LocalDays)
    /\ \A day \in LocalDays :
         \E p \in {dailyData.data[1 + Cardinality({d \in LocalDays : Earlier(d, day)})]} :
           /\ p.date = <<day[2] - 1, day[3]>>
           /\ DOMAIN p.values = {GARAGES[k] : k \in 1..Len(GARAGES)}
           /\ \A g \in DOMAIN p.values :
                IF RowsOn(day, g) = {} THEN p.values[g] = 0
                ELSE IsRoundedMean(p.values[g], RowsOn(day, g))

C19_TwoDaysFromAscendingRows ==
  /\ dailyData.rendered
  /\ Len(dailyData.data) = 2
  /\ Len(props) = 3
  /\ Earlier(LocalDay(props[1].fetched_at), LocalDay(props[3].fetched_at))
  /\ dailyData.data[1].values["South Garage"] = 63
  /\ dailyData.data[2].values["South Garage"] = 0

(***************************************************************************)
(* C20: a run issues at most one store write and never repeats it; the     *)
(* write is issued only after the page fetch has resolved with a 2xx       *)
(* status and at least one garage has been extracted, and its rows carry   *)
(* the fetched_at of the run; a 200 with inserted > 0 is sent only after   *)
(* the write was answered 2xx, and inserted is the number of rows written. *)
(***************************************************************************)
C20_SingleStoreWrite ==
  /\ Cardinality(Posts) <= 1
  /\ \A i \in Posts :
       /\ i = Len(net)
       /\ pageResp.via # "none"
       /\ pageResp.status \in 200..299
       /\ \E j \in 1..(i - 1) :
            /\ net[j].method = "GET"
            /\ net[j].outcome = "response"
            /\ net[j].status \in 200..299
       /\ run.fetchedAt > 0
       /\ Len(run.statuses) >= 1
       /\ Len(net[i].body) = Len(run.statuses)
       /\ \A k \in 1..Len(net[i].body) : net[i].body[k].fetched_at = run.fetchedAt
       /\ net[i].outcome \in {"error", "timeout"} => pc = "done"
  /\ (pc = "done" /\ res[1].status = 200 /\ res[1].json.inserted > 0) =>
       /\ Posts = {Len(net)}
       /\ net[Len(net)].outcome = "response"
       /\ net[Len(net)].status \in 200..299
       /\ res[1].json.inserted = Len(net[Len(net)].body)

C20_TwoRowsInserted ==
  /\ pc = "done"
  /\ res[1].status = 200
  /\ res[1].json.inserted = 2
  /\ Len(net) = 3

(***************************************************************************)
(* C22: once a refresh has started and none is in flight, isLoading is     *)
(* false, whoever started the refreshes and however their queries          *)
(* resolved (with rows or with an error), unless a query rejected: then    *)
(* isLoading is still set exactly when the call started last is the one    *)
(* that rejected and no query has resolved since it started.               *)
(***************************************************************************)
NoneRejected == \A i \in 1..Len(calls) : calls[i].status # "rejected"

\* A query has resolved, with rows or with an error, after call i started.
ResolvedSince(i) ==
  \E k \in 1..Len(log) : \E m \in 1..Len(log) :
    /\ k < m
    /\ log[k] = Event("start", i)
    /\ log[m].kind \in {"loaded", "failed"}

RECURSIVE Decimal(_, _, _)
\* The number the d digits from index k on denote.
Decimal(text, k, d) ==
  IF d = 0 THEN 0 ELSE 10 * Decimal(text, k, d - 1) + DigitValue(text[k + d - 1])

\* The status n is written at index k, after white space and within e:
\* "Full" for 100, or the digits of n, optional white space and "%".
StatusWritten(text, k, e, n) ==
  /\ k >= 2
  /\ IsSpace(text[k - 1])
  /\ \/ k + 3 <= e /\ Reads(text, k, <<"F", "u", "l", "l">>) /\ n = 100
     \/ \E d \in 1..(e - k) :
          /\ \A m \in k..(k + d - 1) : IsDigit(text[m])
          /\ \E w \in 0..(e - k - d) :
               /\ \A m \in (k + d)..(k + d + w - 1) : IsSpace(text[m])
               /\ text[k + d + w] = "%"
          /\ n = Decimal(text, k, d)

TakenFromOwnSegment(text, g, n) ==
  \E at \in {FirstIndex(text, g)} : \E e \in {SegmentEnd(text, at)} :
    /\ at >= 1
    /\ \E k \in (at + Len(g) + 1)..e : StatusWritten(text, k, e, n)

C21_ValuesStayInSegment ==
  page.stage = "statuses" =>
    \A j \in 1..Len(page.statuses) :
      TakenFromOwnSegment(page.text, page.statuses[j].garage, page.statuses[j].status)

\* What does hold: in every text without U+0130, whose lower case has the
\* length of the text, each status comes from the segment of its garage and
\* every garage whose segment holds a value is given one ("South Garage" and
\* "South Campus Garage" each their own).
SegmentsBoundWhereLengthKept ==
  (page.stage = "statuses" /\ \A i \in 1..Len(page.text) : page.text[i] # DottedI) =>
    /\ C21_ValuesStayInSegment
    /\ \A g \in KnownGarages :
         HasValue(page.text, g) =>
           \E j \in 1..Len(page.statuses) : page.statuses[j].garage = g

C21_ValueOfNextGarageTaken ==
  /\ page.stage = "statuses"
  /\ \E j \in 1..Len(page.statuses) :
       /\ page.statuses[j].garage = garageNames[1]
       /\ page.statuses[j].status = 45
  /\ ~HasValue(page.text, garageNames[1])
  /\ HasValue(page.text, garageNames[2])
  /\ \A j \in 1..Len(page.statuses) : page.statuses[j].garage # garageNames[2]

====
